---- MODULE Spec2Model ----
(***************************************************************************)
(* Model of convert.py of mp3yt: locating ffmpeg, the yt-dlp download with *)
(* its output-path resolution, the pytube fallback, and the error the      *)
(* caller of download_mp3 receives.                                        *)
(*                                                                         *)
(* File names are sequences of tokens ("/" and "." are tokens of their     *)
(* own), so that os.path.splitext and os.path.basename are computed as     *)
(* Python computes them.  The FFMPEG_PATH value is a sequence of           *)
(* characters, so that lower() and startswith() are computed.  Error texts *)
(* are sequences of phrases, each with its length in characters, so that   *)
(* the substring tests and the [:200] / [:300] slices are computed.        *)
(***************************************************************************)
EXTENDS Integers, Sequences, FiniteSets, TLC

VARIABLES
    env,            \* the host: FFMPEG_PATH, os.name, files, PATH, imageio-ffmpeg
    video,          \* per request: the video the url names (id, title)
    fs,             \* the files that exist in the output directory
    dirCreated,     \* os.makedirs(output_dir, exist_ok=True) has run
    pc,             \* per request: the position in download_mp3
    ffmpeg_loc,     \* per request: what _resolve_ffmpeg_location returned/raised
    info,           \* per request: what extract_info returned
    error_str,      \* per request: str(e) of the primary failure
    audio_file,     \* per request: the fallback's downloaded file
    mp3_file,       \* per request: the fallback's target file
    fb_error,       \* per request: str(pytube_error) raised by the fallback
    result,         \* per request: the path download_mp3 returned
    error,          \* per request: the RuntimeError download_mp3 raised
    primaryCalls,   \* per request: number of yt-dlp attempts
    fallbackCalls   \* per request: number of _try_pytube_fallback calls

vars == <<env, video, fs, dirCreated, pc, ffmpeg_loc, info, error_str,
          audio_file, mp3_file, fb_error, result, error, primaryCalls,
          fallbackCalls>>

Requests == {1, 2}

\* ------------------------------------------------------------------ bounds
MaxErrLen == 2      \* phrases in a primary error text
MaxRd == 2          \* entries of info["requested_downloads"]

\* ------------------------------------------------------- generic helpers
Min(a, b) == IF a < b THEN a ELSE b

\* s.rfind(c): the last index of c in s, 0 when absent (Python: -1)
RFind(s, c) ==
    LET hits == {i \in 1..Len(s) : s[i] = c}
    IN IF hits = {} THEN 0 ELSE CHOOSE i \in hits : \A j \in hits : j <= i

\* s.startswith(p)
StartsWith(s, p) == Len(p) <= Len(s) /\ SubSeq(s, 1, Len(p)) = p

\* p in s, for sequences: p occurs as a contiguous run of s
Contains(s, p) ==
    \E i \in 0..(Len(s) - Len(p)) : SubSeq(s, i + 1, i + Len(p)) = p

\* all sequences over S of length 0..n
RECURSIVE SeqsUpTo(_, _)
SeqsUpTo(S, n) ==
    IF n = 0 THEN {<<>>}
    ELSE LET shorter == SeqsUpTo(S, n - 1)
         IN shorter \cup {Append(s, x) : s \in {t \in shorter : Len(t) = n - 1}, x \in S}

\* ------------------------------------------------- os.path, on sequences
\* os.path.basename(p): what follows the last "/"
Basename(p) == SubSeq(p, RFind(p, "/") + 1, Len(p))

\* os.path.join(a, b) for a relative b
Join(a, b) == a \o <<"/">> \o b

\* os.path.splitext(p) (genericpath._splitext): split at the last "." of the
\* last component, unless that component holds only dots before it
SplitExt(p) ==
    LET sepIndex == RFind(p, "/")
        dotIndex == RFind(p, ".")
    IN IF dotIndex > sepIndex
          /\ \E i \in (sepIndex + 1)..(dotIndex - 1) : p[i] # "."
       THEN <<SubSeq(p, 1, dotIndex - 1), SubSeq(p, dotIndex, Len(p))>>
       ELSE <<p, <<>>>>

Mp3Ext == <<".", "mp3">>

\* ------------------------------------------------------------ ToolLocator
\* str.lower() on the characters the model uses
LowerChar(c) ==
    CASE c = "F" -> "f" [] c = "M" -> "m" [] c = "P" -> "p"
      [] c = "E" -> "e" [] c = "G" -> "g" [] OTHER -> c

Lower(s) == [i \in 1..Len(s) |-> LowerChar(s[i])]

FfmpegName == <<"f", "f", "m", "p", "e", "g">>
ExeSuffix == <<".", "e", "x", "e">>

\* line 15: exe = "ffmpeg.exe" if os.name == "nt" else "ffmpeg"
ExeName(osname) == IF osname = "nt" THEN FfmpegName \o ExeSuffix ELSE FfmpegName

\* the paths of the host the model distinguishes
BinDir == <<"/", "b">>
NamedDir == <<"/", "f", "f", "m", "p", "e", "g">>
HostDirs == {BinDir, NamedDir}
HostFileNames ==
    { FfmpegName, FfmpegName \o ExeSuffix, <<"F", "F", "m", "p", "e", "g">>,
      <<"x", "f", "f", "m", "p", "e", "g">>, <<"a", "v">> }
HostFiles == {Join(BinDir, n) : n \in HostFileNames}
BundledPath == <<"/", "i", "/", "f", "f">>

NoValue == <<>>          \* Python None / "" for a path-valued result

\* os.environ.get("FFMPEG_PATH"): unset, "", a directory, a file name, a path
\* that does not exist
Overrides ==
    { [set |-> FALSE, value |-> NoValue], [set |-> TRUE, value |-> NoValue] }
    \cup { [set |-> TRUE, value |-> v] :
             v \in HostDirs \cup HostFiles \cup {<<"/", "n", "o">>} }

\* imageio_ffmpeg: not installed, get_ffmpeg_exe() raises, returns "" or a path
ImageioOutcomes == {"import_error", "raises", "empty", "path"}

ToolEnvs ==
    [ override : Overrides,
      osname   : {"posix", "nt"},
      files    : SUBSET HostFiles,
      bundled  : BOOLEAN,        \* the path imageio-ffmpeg names is a file
      onPath   : BOOLEAN,        \* shutil.which("ffmpeg") finds something
      imageio  : ImageioOutcomes ]

IsDir(e, p) == p \in HostDirs
IsFile(e, p) == p \in e.files \/ (p = BundledPath /\ e.bundled)

\* what _resolve_ffmpeg_location gives: kind "ambient" is return None, "path"
\* is return of a location, "error" is raise RuntimeError; probed is what it
\* consulted on the way
Located(kind, value, err, probed) ==
    [kind |-> kind, value |-> value, err |-> err, probed |-> probed]

ERR_NOT_IN_DIR == "FFmpeg not found in FFMPEG_PATH directory"
ERR_INVALID == "FFMPEG_PATH is set but invalid"
ERR_NOT_FOUND == "FFmpeg not found. Install it and add to PATH, set FFMPEG_PATH, or install imageio-ffmpeg"

\* lines 17-25: the override branch
ResolveOverrideWrongExe(e) ==
    LET loc == e.override.value
    IN IF IsDir(e, loc)
       THEN IF IsFile(e, Join(loc, FfmpegName))
            THEN Located("path", loc, "", {"env"})
            ELSE Located("error", NoValue, ERR_NOT_IN_DIR, {"env"})
       ELSE IF IsFile(e, loc) /\ StartsWith(Lower(Basename(loc)), FfmpegName)
            THEN Located("path", loc, "", {"env"})
            ELSE Located("error", NoValue, ERR_INVALID, {"env"})

ResolveOverride(e) ==
    LET loc == e.override.value
        exe == ExeName(e.osname)
    IN IF IsDir(e, loc)
       THEN IF IsFile(e, Join(loc, exe))
            THEN Located("path", loc, "", {"env"})
            ELSE Located("error", NoValue, ERR_NOT_IN_DIR, {"env"})
       ELSE IF IsFile(e, loc) /\ StartsWith(Lower(Basename(loc)), FfmpegName)
            THEN Located("path", loc, "", {"env"})
            ELSE Located("error", NoValue, ERR_INVALID, {"env"})

\* lines 32-44: imageio-ffmpeg, then the final raise
ResolveBundled(e) ==
    IF e.imageio = "path" /\ IsFile(e, BundledPath)
    THEN Located("path", BundledPath, "", {"env", "path", "imageio"})
    ELSE Located("error", NoValue, ERR_NOT_FOUND, {"env", "path", "imageio"})

\* lines 27-44 with the PATH and imageio-ffmpeg steps swapped
ResolveAmbientBundledFirst(e) ==
    IF e.imageio = "path" /\ IsFile(e, BundledPath)
    THEN Located("path", BundledPath, "", {"env", "path", "imageio"})
    ELSE IF e.onPath
         THEN Located("ambient", NoValue, "", {"env", "path"})
         ELSE Located("error", NoValue, ERR_NOT_FOUND, {"env", "path", "imageio"})

\* lines 27-44: PATH, then imageio-ffmpeg
ResolveAmbient(e) ==
    IF e.onPath
    THEN Located("ambient", NoValue, "", {"env", "path"})
    ELSE ResolveBundled(e)

\* lines 6-44: `if loc:` is false for an unset and for an empty FFMPEG_PATH
ResolveFfmpegLocation(e) ==
    IF e.override.set /\ e.override.value # NoValue
    THEN ResolveOverride(e)
    ELSE ResolveAmbient(e)

\* the hosts the download runs are checked on: ffmpeg on PATH, a valid
\* FFMPEG_PATH directory, only the imageio-ffmpeg binary, an invalid
\* FFMPEG_PATH, and no ffmpeg at all
DownloadEnvs ==
    { e \in ToolEnvs :
        /\ e.osname = "posix"
        /\ e.files = {Join(BinDir, FfmpegName)}
        /\ e.override.value \in {NoValue, BinDir, <<"/", "n", "o">>}
        /\ e.override.set = (e.override.value # NoValue)
        /\ e.bundled = (e.imageio = "path")
        /\ e.imageio \in {"import_error", "path"}
        /\ (e.override.set => e.onPath /\ e.imageio = "import_error")
        /\ (e.onPath => e.imageio = "import_error") }

\* lines 68-73: the command the fallback runs
FfmpegCmd(e, loc) ==
    IF loc.kind = "path"
    THEN IF IsDir(e, loc.value) THEN Join(loc.value, ExeName(e.osname)) ELSE loc.value
    ELSE FfmpegName

\* ------------------------------------------------------------ error texts
P_FAILED == "Failed to extract any "
P_PLAYER == "player response"
P_SIGNIN == "Sign in to confirm you're not a bot"
P_403 == "HTTP Error 403"
P_429 == "HTTP Error 429"
P_OTHER == "(150 characters of other text)"
P_NOT_CREATED == "MP3 file not created by yt-dlp"
F_PREFIX == "Pytube fallback failed: "
F_NO_MODULE == "No module named 'pytube'"
F_NO_STREAM == "No audio stream found"
F_DOWNLOAD == "pytube: download failed"
F_FFMPEG == "ffmpeg returned non-zero exit status 1"
F_REMOVE == "os.remove: Permission denied"

\* len() of a phrase, in characters
PhraseLen(t) ==
    CASE t = P_FAILED -> 22 [] t = P_PLAYER -> 15 [] t = P_SIGNIN -> 35
      [] t = P_403 -> 14 [] t = P_429 -> 14 [] t = P_OTHER -> 150
      [] t = P_NOT_CREATED -> 30 [] t = F_PREFIX -> 24 [] t = F_NO_MODULE -> 24
      [] t = F_NO_STREAM -> 21 [] t = F_DOWNLOAD -> 23 [] t = F_FFMPEG -> 38
      [] t = F_REMOVE -> 28 [] OTHER -> 90

ErrPhrases == {P_FAILED, P_PLAYER, P_SIGNIN, P_403, P_429, P_OTHER}

\* s[:n]: the phrases of s, each with the number of its characters kept
RECURSIVE Slice(_, _)
Slice(s, n) ==
    IF s = <<>> \/ n <= 0 THEN <<>>
    ELSE LET k == Min(PhraseLen(Head(s)), n)
         IN <<[phrase |-> Head(s), kept |-> k]>> \o Slice(Tail(s), n - k)

MainLimit == 200        \* str(e)[:200]
FallbackLimit == 200    \* str(pytube_error)[:200]
OtherLimit == 300       \* str(e)[:300]

\* lines 146-152 without the 429 signature
BlockingPatternsNo429 ==
    { <<P_FAILED, P_PLAYER>>, <<P_PLAYER>>, <<P_SIGNIN>>, <<P_403>> }

\* lines 146-152: the signatures searched for in error_str
BlockingPatterns ==
    { <<P_FAILED, P_PLAYER>>, <<P_PLAYER>>, <<P_SIGNIN>>, <<P_403>>, <<P_429>> }

MatchesBlocking(text) == \E p \in BlockingPatterns : Contains(text, p)

NoError == [kind |-> "none", main |-> <<>>, fallback |-> <<>>]

\* line 94: raise RuntimeError(f"FFmpeg setup failed: {e}")
SetupError(err) ==
    [kind |-> "setup", main |-> <<[phrase |-> err, kept |-> PhraseLen(err)]>>,
     fallback |-> <<>>]

\* lines 153-163: the message raised when the fallback failed too
FailureMessage(primaryText, fallbackText) ==
    IF MatchesBlocking(primaryText)
    THEN [kind |-> "both", main |-> Slice(primaryText, MainLimit),
          fallback |-> Slice(fallbackText, FallbackLimit)]
    ELSE [kind |-> "download_failed", main |-> Slice(primaryText, OtherLimit),
          fallback |-> <<>>]

\* ------------------------------------------------------------- file names
OutputDir == <<"downloads">>
Titles == {<<>>, <<"a">>, <<"b">>}
VideoId(r) == IF r = 1 THEN "id1" ELSE "id2"

\* line 100: os.path.join(output_dir, "%(title)s [%(id)s].%(ext)s")
OutTmpl(title, id, ext) == Join(OutputDir, title \o <<" [", id, "]", ".", ext>>)

\* line 126: ydl.prepare_filename({**info, "ext": "mp3"})
PrepareFilename(v) == OutTmpl(v.title, v.id, "mp3")

\* the names yt-dlp may give its files when its sanitising of the title
\* differs from the prediction's
Variant(v, mark, ext) == OutTmpl(v.title \o <<mark>>, v.id, ext)

\* pytube: Stream.default_filename is "<title>.<subtype>", joined to output_path
PytubeSubtypes == {"mp4", "webm"}
PytubeFile(v, subtype) == Join(OutputDir, v.title \o <<".", subtype>>)

\* lines 64-65: base_name = splitext(audio_file)[0]; mp3_file = base_name + ".mp3"
FallbackTarget(audio) == SplitExt(audio)[1] \o Mp3Ext

NoInfo == [ok |-> FALSE, rd |-> <<>>]

\* the filepath values a requested_downloads entry may hold; NoValue is an
\* entry without one
RdEntries(v) ==
    {NoValue, PrepareFilename(v), Variant(v, "_", "webm"), Variant(v, "-", "mp3")}

\* the files a successful yt-dlp run may leave
PrimaryFiles(v) ==
    SUBSET {PrepareFilename(v), Variant(v, "_", "mp3"), Variant(v, "-", "mp3")}

\* line 131: next((d.get("filepath") for d in rd if d.get("filepath")), None)
FirstFilepath(rd) ==
    LET hits == {i \in 1..Len(rd) : rd[i] # NoValue}
    IN IF hits = {} THEN NoValue
       ELSE rd[CHOOSE i \in hits : \A j \in hits : i <= j]

\* line 131 taking the last entry that records a path
LastFilepath(rd) ==
    LET hits == {i \in 1..Len(rd) : rd[i] # NoValue}
    IN IF hits = {} THEN NoValue
       ELSE rd[CHOOSE i \in hits : \A j \in hits : j <= i]

\* lines 126-135: the path the primary strategy settles on
FinalMp3With(files, predicted, cand) ==
    IF predicted \notin files /\ cand # NoValue
       /\ (SplitExt(cand)[1] \o Mp3Ext) \in files
    THEN SplitExt(cand)[1] \o Mp3Ext
    ELSE predicted

ResolveOutputLastEntry(files, predicted, rd) ==
    LET final_mp3 == FinalMp3With(files, predicted, LastFilepath(rd))
    IN IF final_mp3 \in files THEN final_mp3 ELSE NoValue

\* lines 126-138 without the check of line 137
ResolveOutputUnchecked(files, predicted, rd) ==
    FinalMp3With(files, predicted, FirstFilepath(rd))

\* lines 126-140: the returned path, NoValue for the raise of line 138
ResolveOutput(files, predicted, rd) ==
    LET final_mp3 == FinalMp3With(files, predicted, FirstFilepath(rd))
    IN IF final_mp3 \in files THEN final_mp3 ELSE NoValue

\* ------------------------------------------------------------ download_mp3
Set(f, r, v) == [f EXCEPT ![r] = v]

\* lines 88-94 letting a failed tool lookup pass as "use PATH"
StartIgnoringToolError(r) ==
    /\ pc[r] = "idle"
    /\ dirCreated' = TRUE
    /\ LET loc == ResolveFfmpegLocation(env)
       IN /\ ffmpeg_loc' = Set(ffmpeg_loc, r, loc)
          /\ pc' = Set(pc, r, "primary")
          /\ error' = error
    /\ UNCHANGED <<env, video, fs, info, error_str, audio_file, mp3_file,
                   fb_error, result, primaryCalls, fallbackCalls>>

\* lines 88-94: os.makedirs, then _resolve_ffmpeg_location; its failure is
\* wrapped and raised
Start(r) ==
    /\ pc[r] = "idle"
    /\ dirCreated' = TRUE
    /\ LET loc == ResolveFfmpegLocation(env)
       IN /\ ffmpeg_loc' = Set(ffmpeg_loc, r, loc)
          /\ IF loc.kind = "error"
             THEN /\ pc' = Set(pc, r, "failed")
                  /\ error' = Set(error, r, SetupError(loc.err))
             ELSE /\ pc' = Set(pc, r, "primary")
                  /\ error' = error
    /\ UNCHANGED <<env, video, fs, info, error_str, audio_file, mp3_file,
                   fb_error, result, primaryCalls, fallbackCalls>>

\* lines 142-163 trying the fallback for the blocking signatures only
PrimaryFailedNoLastResort(r, text) ==
    /\ error_str' = Set(error_str, r, text)
    /\ IF MatchesBlocking(text)
       THEN /\ pc' = Set(pc, r, "fallback")
            /\ error' = error
       ELSE /\ pc' = Set(pc, r, "failed")
            /\ error' = Set(error, r, FailureMessage(text, <<>>))

\* lines 142-163: every failure of the try block, the raise of line 138
\* included, is caught and leads to _try_pytube_fallback
PrimaryFailed(r, text) ==
    /\ error_str' = Set(error_str, r, text)
    /\ pc' = Set(pc, r, "fallback")
    /\ error' = error

\* lines 123-125 raising: extract_info fails with some text
PrimaryRaises(r, texts) ==
    /\ pc[r] = "primary"
    /\ primaryCalls' = Set(primaryCalls, r, primaryCalls[r] + 1)
    /\ \E text \in texts : PrimaryFailed(r, text)
    /\ UNCHANGED <<env, video, fs, dirCreated, ffmpeg_loc, info, audio_file,
                   mp3_file, fb_error, result, fallbackCalls>>

\* lines 123-140: extract_info returns, having left some files and some
\* requested_downloads; the path is resolved and returned, or line 138 raises
PrimaryDownloads(r, maxRd) ==
    /\ pc[r] = "primary"
    /\ primaryCalls' = Set(primaryCalls, r, primaryCalls[r] + 1)
    /\ \E written \in PrimaryFiles(video[r]), rd \in SeqsUpTo(RdEntries(video[r]), maxRd) :
         /\ fs' = fs \cup written
         /\ info' = Set(info, r, [ok |-> TRUE, rd |-> rd])
         /\ LET final_mp3 == ResolveOutput(fs', PrepareFilename(video[r]), rd)
            IN IF final_mp3 # NoValue
               THEN /\ result' = Set(result, r, final_mp3)
                    /\ pc' = Set(pc, r, "done")
                    /\ UNCHANGED <<error_str, error>>
               ELSE /\ result' = result
                    /\ PrimaryFailed(r, <<P_NOT_CREATED>>)
    /\ UNCHANGED <<env, video, dirCreated, ffmpeg_loc, audio_file, mp3_file,
                   fb_error, fallbackCalls>>

\* line 85 and lines 155-163: the fallback's exception is wrapped, caught by
\* download_mp3 and replaced by the message for the caller
FallbackRaises(r, cause) ==
    /\ fb_error' = Set(fb_error, r, <<F_PREFIX, cause>>)
    /\ error' = Set(error, r, FailureMessage(error_str[r], <<F_PREFIX, cause>>))
    /\ pc' = Set(pc, r, "failed")

\* lines 50-65: pytube finds the audio stream and downloads it
FallbackDownload(r) ==
    /\ pc[r] = "fallback"
    /\ fallbackCalls' = Set(fallbackCalls, r, fallbackCalls[r] + 1)
    /\ \/ /\ \E cause \in {F_NO_MODULE, F_NO_STREAM, F_DOWNLOAD} : FallbackRaises(r, cause)
          /\ UNCHANGED <<fs, audio_file, mp3_file>>
       \/ \E subtype \in PytubeSubtypes :
            LET downloaded == PytubeFile(video[r], subtype)
            IN /\ fs' = fs \cup {downloaded}
               /\ audio_file' = Set(audio_file, r, downloaded)
               /\ mp3_file' = Set(mp3_file, r, FallbackTarget(downloaded))
               /\ pc' = Set(pc, r, "fb_convert")
               /\ UNCHANGED <<fb_error, error>>
    /\ UNCHANGED <<env, video, dirCreated, ffmpeg_loc, info, error_str, result,
                   primaryCalls>>

\* lines 67-77: ffmpeg is located again and run with check=True; it cannot
\* succeed without its input file, nor with its input as its output
FallbackConvert(r) ==
    /\ pc[r] = "fb_convert"
    /\ LET loc == ResolveFfmpegLocation(env)
       IN \/ /\ loc.kind = "error"
             /\ FallbackRaises(r, loc.err)
             /\ fs' = fs
          \/ /\ loc.kind # "error"
             /\ FallbackRaises(r, F_FFMPEG)
             /\ fs' = fs
          \/ /\ loc.kind # "error"
             /\ FfmpegCmd(env, loc) # NoValue
             /\ audio_file[r] \in fs
             /\ audio_file[r] # mp3_file[r]
             /\ fs' = fs \cup {mp3_file[r]}
             /\ pc' = Set(pc, r, "fb_cleanup")
             /\ UNCHANGED <<fb_error, error>>
    /\ UNCHANGED <<env, video, dirCreated, ffmpeg_loc, info, error_str,
                   audio_file, mp3_file, result, primaryCalls, fallbackCalls>>

\* lines 80-81 removing nothing
CleanupSkipped(files, target) == files

\* lines 80-81: os.remove(audio_file)
Cleanup(files, target) == files \ {target}

\* lines 79-85 and 154/160: the intermediate file is removed if it exists and
\* the MP3 path is returned; an os.remove that raises is inside the try block
\* of line 50, so line 85 turns it into a failure of the fallback
FallbackCleanup(r) ==
    /\ pc[r] = "fb_cleanup"
    /\ \/ /\ fs' = IF audio_file[r] \in fs THEN Cleanup(fs, audio_file[r]) ELSE fs
          /\ result' = Set(result, r, mp3_file[r])
          /\ pc' = Set(pc, r, "done")
          /\ UNCHANGED <<fb_error, error>>
       \/ /\ audio_file[r] \in fs
          /\ FallbackRaises(r, F_REMOVE)
          /\ UNCHANGED <<fs, result>>
    /\ UNCHANGED <<env, video, dirCreated, ffmpeg_loc, info, error_str,
                   audio_file, mp3_file, primaryCalls, fallbackCalls>>

\* ---------------------------------------------------------- specifications
\* what earlier runs for the first request's video may have left
Leftovers(v) ==
    SUBSET {PrepareFilename(v[1]), PytubeFile(v[1], "mp4"), FallbackTarget(PytubeFile(v[1], "mp4"))}

\* the state before the requests in `active` are made
InitRequests(active, hosts, withLeftovers) ==
    /\ env \in hosts
    /\ video \in {v \in [Requests -> [id : {VideoId(r) : r \in Requests}, title : Titles]] :
                    \A r \in Requests : v[r].id = VideoId(r)}
    /\ fs \in (IF withLeftovers THEN Leftovers(video) ELSE {{}})
    /\ dirCreated \in {fs # {}, TRUE}
    /\ pc = [r \in Requests |-> IF r \in active THEN "idle" ELSE "off"]
    /\ ffmpeg_loc = [r \in Requests |-> Located("none", NoValue, "", {})]
    /\ info = [r \in Requests |-> NoInfo]
    /\ error_str = [r \in Requests |-> <<>>]
    /\ audio_file = [r \in Requests |-> NoValue]
    /\ mp3_file = [r \in Requests |-> NoValue]
    /\ fb_error = [r \in Requests |-> <<>>]
    /\ result = [r \in Requests |-> NoValue]
    /\ error = [r \in Requests |-> NoError]
    /\ primaryCalls = [r \in Requests |-> 0]
    /\ fallbackCalls = [r \in Requests |-> 0]

ErrorTexts == SeqsUpTo(ErrPhrases, MaxErrLen) \ {<<>>}

Init == InitRequests({1}, DownloadEnvs, TRUE)

Next ==
    \E r \in Requests :
        \/ Start(r)
        \/ PrimaryRaises(r, ErrorTexts)
        \/ PrimaryDownloads(r, MaxRd)
        \/ FallbackDownload(r)
        \/ FallbackConvert(r)
        \/ FallbackCleanup(r)

Spec == Init /\ [][Next]_vars

\* two requests for different videos run interleaved in one empty output
\* directory, with one blocked and one other primary error text
ConcErrorTexts == {<<P_429>>, <<P_OTHER>>}

InitConc == InitRequests(Requests, {e \in DownloadEnvs : e.onPath /\ ~e.override.set}, FALSE)

NextConc ==
    \E r \in Requests :
        \/ Start(r)
        \/ PrimaryRaises(r, ConcErrorTexts)
        \/ PrimaryDownloads(r, 1)
        \/ FallbackDownload(r)
        \/ FallbackConvert(r)
        \/ FallbackCleanup(r)

SpecConc == InitConc /\ [][NextConc]_vars

\* _resolve_ffmpeg_location on every host of ToolEnvs
InitTool == InitRequests({1}, ToolEnvs, FALSE)

NextTool == \E r \in Requests : Start(r)

SpecTool == InitTool /\ [][NextTool]_vars

\* ------------------------------------------------------------------ claims
Terminal(r) == pc[r] \in {"done", "failed"}
BothFailed(r) == pc[r] = "failed" /\ primaryCalls[r] = 1 /\ fallbackCalls[r] = 1

\* part is a non-empty slice s[:n] of text
SliceOf(part, text) ==
    /\ part # <<>>
    /\ Len(part) <= Len(text)
    /\ \A i \in 1..Len(part) :
         /\ part[i].phrase = text[i]
         /\ part[i].kept >= 1
         /\ part[i].kept <= PhraseLen(text[i])
         /\ (i < Len(part) => part[i].kept = PhraseLen(text[i]))

\* the message shows the cause the fallback raised with
ShowsFallbackCause(r) ==
    /\ SliceOf(error[r].fallback, fb_error[r])
    /\ \E i \in 1..Len(error[r].fallback) : error[r].fallback[i].phrase = fb_error[r][2]

\* the primary error text holds one of the signatures of lines 147-151
\* ("Failed to extract any player response" holds "player response")
HasSignature(text) ==
    \E i \in 1..Len(text) : text[i] \in {P_PLAYER, P_SIGNIN, P_403, P_429}

\* C1 as claimed: whenever both strategies failed, the caller gets one error
\* and no path, and the error's message references the primary cause and the
\* fallback cause, whatever the primary error text.
C1_BothCausesAlways ==
    \A r \in Requests :
        BothFailed(r) =>
            /\ error[r] # NoError
            /\ result[r] = NoValue
            /\ SliceOf(error[r].main, error_str[r])
            /\ ShowsFallbackCause(r)

\* C1 amended: whenever both strategies failed, the caller gets one error and
\* no path; the message references the primary cause; it references the
\* fallback cause exactly when the primary error text holds a blocking
\* signature.
C1_BothCausesWhenBlocked ==
    \A r \in Requests :
        BothFailed(r) =>
            /\ error[r] # NoError
            /\ result[r] = NoValue
            /\ SliceOf(error[r].main, error_str[r])
            /\ (HasSignature(error_str[r]) => ShowsFallbackCause(r))
            /\ (~HasSignature(error_str[r]) => error[r].fallback = <<>>)

C1_Witness ==
    \E r \in Requests :
        /\ BothFailed(r)
        /\ error_str[r] = <<P_OTHER, P_429>>
        /\ error[r].kind = "both"
        /\ fb_error[r] = <<F_PREFIX, F_NO_STREAM>>

\* C2: every path download_mp3 returns, from the primary or from the fallback
\* strategy, names a file that exists and whose extension is .mp3.
C2_ReturnedFileExists ==
    \A r \in Requests :
        pc[r] = "done" =>
            /\ result[r] \in fs
            /\ SplitExt(result[r])[2] = Mp3Ext
            /\ Len(result[r]) >= 2
            /\ SubSeq(result[r], Len(result[r]) - 1, Len(result[r])) = <<".", "mp3">>

C2_Witness ==
    \E r \in Requests :
        /\ pc[r] = "done"
        /\ fallbackCalls[r] = 1
        /\ audio_file[r] # NoValue
        /\ audio_file[r] \notin fs
        /\ result[r] = mp3_file[r]

\* C3 as claimed: no request fails because the fallback could not delete its
\* intermediate file after the download and the transcode succeeded.
C3_CleanupFailureNotFatal ==
    \A r \in Requests :
        pc[r] = "failed" => fb_error[r] # <<F_PREFIX, F_REMOVE>>

\* C4: each strategy runs at most once per request; a failed primary attempt
\* (blocked, not blocked, or no MP3 resolved) is followed by exactly one
\* fallback call; a successful primary attempt by none.
C4_FallbackExactlyOnce ==
    \A r \in Requests :
        /\ primaryCalls[r] <= 1
        /\ fallbackCalls[r] <= 1
        /\ (fallbackCalls[r] = 1 => primaryCalls[r] = 1 /\ error_str[r] # <<>>)
        /\ (Terminal(r) /\ error_str[r] # <<>> => fallbackCalls[r] = 1)
        /\ (pc[r] = "done" /\ error_str[r] = <<>> => primaryCalls[r] = 1 /\ fallbackCalls[r] = 0)

C4_Witness ==
    \E r \in Requests :
        /\ pc[r] = "done"
        /\ info[r].ok
        /\ error_str[r] = <<P_NOT_CREATED>>
        /\ fallbackCalls[r] = 1

\* C5: when the primary error holds "HTTP Error 429" and the fallback
\* succeeds, the returned path is the downloaded audio file's path with its
\* extension replaced by .mp3, and that audio file no longer exists.
C5_FallbackResultAfter429 ==
    \A r \in Requests :
        (pc[r] = "done" /\ \E i \in 1..Len(error_str[r]) : error_str[r][i] = P_429) =>
            /\ fallbackCalls[r] = 1
            /\ \E st \in PytubeSubtypes :
                 /\ audio_file[r] = Join(OutputDir, video[r].title \o <<".", st>>)
                 /\ result[r] =
                      IF video[r].title = <<>>
                      THEN audio_file[r] \o <<".", "mp3">>
                      ELSE Join(OutputDir, video[r].title \o <<".", "mp3">>)
            /\ audio_file[r] \notin fs

C5_Witness ==
    \E r \in Requests :
        /\ pc[r] = "done"
        /\ error_str[r] = <<P_429>>
        /\ fallbackCalls[r] = 1
        /\ audio_file[r] = PytubeFile(video[r], "mp4")
        /\ audio_file[r] \notin fs
        /\ result[r] \in fs

\* the override of host e names a directory holding the platform's ffmpeg
\* executable, or an existing file named ffmpeg... (any case)
ValidOverride(e) ==
    \/ /\ e.override.value = BinDir
       /\ \/ e.osname = "nt" /\ Join(BinDir, FfmpegName \o ExeSuffix) \in e.files
          \/ e.osname # "nt" /\ Join(BinDir, FfmpegName) \in e.files
    \/ /\ e.override.value \in e.files
       /\ e.override.value \in
            { Join(BinDir, FfmpegName), Join(BinDir, FfmpegName \o ExeSuffix),
              Join(BinDir, <<"F", "F", "m", "p", "e", "g">>) }

Located6(r, e) ==
    /\ ValidOverride(e) =>
         /\ ffmpeg_loc[r].kind = "path"
         /\ ffmpeg_loc[r].value = e.override.value
         /\ pc[r] = "primary"
    /\ ~ValidOverride(e) =>
         /\ ffmpeg_loc[r].kind = "error"
         /\ ffmpeg_loc[r].err \in {ERR_NOT_IN_DIR, ERR_INVALID}
         /\ pc[r] = "failed"
    /\ ffmpeg_loc[r].probed \cap {"path", "imageio"} = {}

\* C6 as claimed: whenever FFMPEG_PATH is set, the override is returned
\* exactly when it is valid, a configuration error is raised otherwise, and
\* neither PATH nor imageio-ffmpeg is consulted.
C6_OverrideSet ==
    \A r \in Requests :
        (pc[r] \in {"primary", "failed"} /\ env.override.set) => Located6(r, env)

\* C6 amended: whenever FFMPEG_PATH is set to a non-empty value, the override
\* is returned exactly when it is valid, a configuration error is raised
\* otherwise, and neither PATH nor imageio-ffmpeg is consulted.
C6_OverrideNonEmpty ==
    \A r \in Requests :
        (pc[r] \in {"primary", "failed"} /\ env.override.set /\ env.override.value # <<>>)
            => Located6(r, env)

C6_Witness ==
    \E r \in Requests :
        /\ pc[r] = "primary"
        /\ env.override.value = BinDir
        /\ env.osname = "nt"
        /\ Join(BinDir, FfmpegName) \notin env.files
        /\ env.onPath
        /\ ffmpeg_loc[r].value = BinDir

\* C7 as claimed: two requests for different videos never produce or return
\* the same file path, neither from the primary nor from the fallback strategy.
C7_PathsUniquePerVideo ==
    \A r1, r2 \in Requests :
        (r1 # r2 /\ video[r1].id # video[r2].id) =>
            /\ (result[r1] # NoValue /\ result[r2] # NoValue => result[r1] # result[r2])
            /\ (audio_file[r1] # NoValue /\ audio_file[r2] # NoValue
                  => audio_file[r1] # audio_file[r2])
            /\ (mp3_file[r1] # NoValue /\ mp3_file[r2] # NoValue
                  => mp3_file[r1] # mp3_file[r2])

\* the existing .mp3 a requested_downloads entry stands for
Mp3OfEntry(v, entry) ==
    CASE entry = OutTmpl(v.title, v.id, "mp3") -> entry
      [] entry = OutTmpl(v.title \o <<"_">>, v.id, "webm") -> OutTmpl(v.title \o <<"_">>, v.id, "mp3")
      [] entry = OutTmpl(v.title \o <<"-">>, v.id, "mp3") -> entry
      [] OTHER -> NoValue

\* the state right after the primary download returned: resolved, or line 138
PrimaryRan(r) == info[r].ok /\ fallbackCalls[r] = 0 /\ pc[r] \in {"done", "fallback"}

Resolved8(r, siblings) ==
    LET predicted == OutTmpl(video[r].title, video[r].id, "mp3")
    IN IF predicted \in fs
       THEN pc[r] = "done" /\ result[r] = predicted
       ELSE IF siblings # {}
            THEN pc[r] = "done" /\ result[r] \in siblings
            ELSE pc[r] = "fallback" /\ error_str[r] = <<P_NOT_CREATED>> /\ result[r] = NoValue

\* C8 as claimed: the predicted path if it exists; otherwise the existing
\* .mp3 of any requested_downloads entry; failure only when no entry has one.
C8_AnyEntryResolves ==
    \A r \in Requests :
        PrimaryRan(r) =>
            Resolved8(r, { Mp3OfEntry(video[r], info[r].rd[i]) : i \in 1..Len(info[r].rd) } \cap fs)

\* C8 amended: the predicted path if it exists; otherwise the existing .mp3 of
\* the first requested_downloads entry that records a file path; failure when
\* there is no such entry or its .mp3 does not exist.
C8_FirstEntryResolves ==
    \A r \in Requests :
        PrimaryRan(r) =>
            Resolved8(r, { Mp3OfEntry(video[r], info[r].rd[i]) :
                             i \in { k \in 1..Len(info[r].rd) :
                                       /\ info[r].rd[k] # NoValue
                                       /\ \A j \in 1..(k - 1) : info[r].rd[j] = NoValue } }
                         \cap fs)

C8_Witness ==
    \E r \in Requests :
        /\ pc[r] = "done"
        /\ fallbackCalls[r] = 0
        /\ PrepareFilename(video[r]) \notin fs
        /\ info[r].rd = <<NoValue, Variant(video[r], "_", "webm")>>
        /\ result[r] = Variant(video[r], "_", "mp3")

NoOverride(e) == ~e.override.set \/ e.override.value = <<>>

\* C9: with no override, ffmpeg on PATH gives "use PATH" without consulting
\* imageio-ffmpeg; otherwise an existing imageio-ffmpeg binary is returned;
\* otherwise the not-found error naming the three strategies is raised.
C9_AmbientThenBundled ==
    \A r \in Requests :
        (pc[r] \in {"primary", "failed"} /\ NoOverride(env)) =>
            IF env.onPath
            THEN /\ ffmpeg_loc[r].kind = "ambient"
                 /\ "imageio" \notin ffmpeg_loc[r].probed
                 /\ pc[r] = "primary"
            ELSE IF env.imageio = "path" /\ env.bundled
                 THEN /\ ffmpeg_loc[r].kind = "path"
                      /\ ffmpeg_loc[r].value = BundledPath
                      /\ pc[r] = "primary"
                 ELSE /\ ffmpeg_loc[r].kind = "error"
                      /\ ffmpeg_loc[r].err = ERR_NOT_FOUND
                      /\ pc[r] = "failed"

C9_Witness ==
    \E r \in Requests :
        /\ pc[r] = "primary"
        /\ ~env.override.set
        /\ env.onPath
        /\ env.imageio = "path"
        /\ env.bundled
        /\ ffmpeg_loc[r].kind = "ambient"

\* the download hosts on which no ffmpeg can be located
ToolMissing(e) ==
    \/ e.override.value = <<"/", "n", "o">>
    \/ ~e.override.set /\ ~e.onPath /\ e.imageio # "path"

\* C10: a strategy runs only after ffmpeg was located; when locating fails the
\* request fails with the wrapped error, neither strategy is invoked, and
\* nothing is written: only the output directory has been created.
C10_ToolFailureIsFatal ==
    /\ [](\A r \in Requests :
            /\ (primaryCalls[r] > 0 \/ fallbackCalls[r] > 0)
                 => ffmpeg_loc[r].kind \in {"ambient", "path"}
            /\ (ToolMissing(env) /\ pc[r] \notin {"idle", "off"}) =>
                 /\ pc[r] = "failed"
                 /\ error[r].kind = "setup"
                 /\ error[r].main[1].phrase \in {ERR_NOT_IN_DIR, ERR_INVALID, ERR_NOT_FOUND}
                 /\ result[r] = NoValue
                 /\ primaryCalls[r] = 0 /\ fallbackCalls[r] = 0
                 /\ info[r] = NoInfo /\ audio_file[r] = NoValue
                 /\ dirCreated)
    /\ [][\A r \in Requests :
            (pc[r] = "idle" /\ ToolMissing(env)) => (fs' = fs /\ pc'[r] \in {"idle", "failed"})]_vars

C10_Witness ==
    \E r \in Requests :
        /\ pc[r] = "failed"
        /\ error[r].kind = "setup"
        /\ error[r].main[1].phrase = ERR_INVALID
        /\ dirCreated

====
